---- MODULE Spec2Model ----
(***************************************************************************)
(* The parsing engine of src/compiler/parser.py (the immutable Parser      *)
(* cursor, the structural tokens, the indentation measurement and the      *)
(* ordered alternation Parser.parse) and the argument-list rule of         *)
(* src/compiler/language_models/argument_list.py.                          *)
(*                                                                         *)
(* A source is a sequence of lines, a line a sequence of one-character     *)
(* strings.  Line and column indices are 0-based as in the Python code;    *)
(* TLA+ sequences are 1-based, so line i of the source is lines[i + 1].    *)
(***************************************************************************)
EXTENDS Integers, Sequences, FiniteSets, TLC

VARIABLES
    lines,      \* Parser._lines: the source, never changed after construction
    parser,     \* the current Parser value (line, column, last_symbol, block_depth)
    call,       \* the last call made on the engine: what was tried, on which cursor, its result
    \* the locals of ArgumentList.parse, under their names in the code
    cursor,
    arguments,
    saw_end_position_only_marker,
    saw_begin_keyword_only_marker,
    saw_extra_positionals,
    saw_extra_keywords,
    outcome,    \* how ArgumentList.parse ended: still running, a returned cursor, an exception
    namespaces, \* the Namespace objects made so far, the root first
    threads     \* what each thread is calling on the namespace tree, and where it stands

\* the variables of ArgumentList.parse
args_vars == <<cursor, arguments, saw_end_position_only_marker,
               saw_begin_keyword_only_marker, saw_extra_positionals,
               saw_extra_keywords, outcome>>

\* the variables of the namespace tree
ns_vars == <<namespaces, threads>>

\* what a step of the engine's driver leaves alone
engine_frame == <<lines, args_vars, namespaces, threads>>

----------------------------------------------------------------------------
(* Bounds of the model.                                                    *)

\* longest source, in lines
MaxLines == 3
\* deepest indentation written in a source line, in levels of four spaces
MaxDepth == 2
\* longest candidate list handed to Parser.parse
MaxCandidates == 2
\* longest argument-list text, in characters
MaxArgLen == 7
\* most leading spaces of a line whose indentation is measured on its own
MaxIndent == 12
\* most Namespace objects in a tree, the root included
MaxNamespaces == 3

----------------------------------------------------------------------------
(* Text.                                                                   *)

Max(a, b) == IF a > b THEN a ELSE b
Min(a, b) == IF a < b THEN a ELSE b

\* the characters the regex class \s and str.strip() treat as whitespace
Whitespace == {" ", "\t"}

Spaces(n) == [i \in 1..n |-> " "]

\* what follows the leading spaces of a line
Tails == {<< >>, <<"x">>}

\* the lines of a source whose indentation is a whole number of levels
LineSet == {Spaces(4 * d) \o t : d \in 0..MaxDepth, t \in Tails}

SeqsUpTo(S, n) == UNION {[1..k -> S] : k \in 0..n}

Sources == SeqsUpTo(LineSet, MaxLines)

\* whitespace other than spaces standing between the leading spaces and the tail
Gaps == {<< >>, <<"\t">>}

\* lines of any indentation, well formed or not
IndentLines == {Spaces(n) \o g \o t : n \in 0..MaxIndent, g \in Gaps, t \in Tails}

\* the empty source and the sources of one line
OneLineSources == {<< >>} \cup {<<text>> : text \in IndentLines}

----------------------------------------------------------------------------
(* The Parser cursor.                                                      *)

\* last_symbol = None
NoSymbol == [type |-> "None"]

\* Parser(lines, line=0, column=0, last_symbol=None, block_depth=0)
Parser(line, column, last_symbol, block_depth) ==
    [line |-> line, column |-> column,
     last_symbol |-> last_symbol, block_depth |-> block_depth]

line_text(p) == IF p.line < Len(lines) THEN lines[p.line + 1] ELSE << >>

\* the last line taken to be the number of lines
last_line_CountsLines == Len(lines)

last_line == Max(0, Len(lines) - 1)

\* the classes derived from Token
TokenTypes == {"EndFile", "BlankLine", "EndLine", "BeginBlock", "EndBlock",
               "Characters", "Always"}

\* Token(first_line, next_line, first_column, next_column)
Token(type, first_line, next_line, first_column, next_column) ==
    [type |-> type, first_line |-> first_line, next_line |-> next_line,
     first_column |-> first_column, next_column |-> next_column]

\* BeginBlock / EndBlock: a Token with a block_depth
BlockToken(type, first_line, next_line, first_column, next_column, block_depth) ==
    [type |-> type, first_line |-> first_line, next_line |-> next_line,
     first_column |-> first_column, next_column |-> next_column,
     block_depth |-> block_depth]

\* the new cursor when the line is not held back at one past the last line
new_from_symbol_LineNotClamped(p, symbol) ==
    LET block_depth == IF symbol.type \in {"BeginBlock", "EndBlock"}
                       THEN symbol.block_depth
                       ELSE p.block_depth
        line == IF symbol.type \in TokenTypes THEN symbol.next_line ELSE p.line
        column == IF symbol.type \in TokenTypes THEN symbol.next_column ELSE p.column
    IN  Parser(line, column, symbol, block_depth)

new_from_symbol(p, symbol) ==
    LET block_depth == IF symbol.type \in {"BeginBlock", "EndBlock"}
                       THEN symbol.block_depth
                       ELSE p.block_depth
        line == IF symbol.type \in TokenTypes THEN symbol.next_line ELSE p.line
        column == IF symbol.type \in TokenTypes THEN symbol.next_column ELSE p.column
    IN  Parser(Min(line, last_line + 1), column, symbol, block_depth)

----------------------------------------------------------------------------
(* What a parse call gives: a new cursor, None, or an exception.           *)

Matched(p) == [kind |-> "matched", parser |-> p]

None == [kind |-> "None"]

NoMatchError(p, expected_symbols) ==
    [kind |-> "NoMatchError", parser |-> p, expected_symbols |-> expected_symbols]

IndentationError(message, line, column) ==
    [kind |-> "IndentationError", message |-> message, line |-> line, column |-> column]

----------------------------------------------------------------------------
(* The indentation measurement.                                            *)

RECURSIVE RunLength(_, _, _)
\* how many characters of text, from index from (1-based) on, lie in chars
RunLength(text, from, chars) ==
    IF from <= Len(text) /\ text[from] \in chars
    THEN 1 + RunLength(text, from + 1, chars)
    ELSE 0

\* _INDENT_REGEX.match(text) for ^( *)(\s*): group 1 the leading spaces,
\* group 2 the whitespace after them; offsets are 0-based as in Python
INDENT_REGEX_match(text) ==
    LET g1 == RunLength(text, 1, {" "})
        g2 == RunLength(text, g1 + 1, Whitespace)
    IN  [group2 |-> SubSeq(text, g1 + 1, g1 + g2), start2 |-> g1, end |-> g1 + g2]

Measured(d) == [kind |-> "depth", block_depth |-> d]

\* the over-indentation column is taken at the current depth, not one past it
measure_block_depth_ColumnAtDepth(p) ==
    LET match == INDENT_REGEX_match(line_text(p))
        indentation == match.end
        block_depth == indentation \div 4
        remainder == indentation % 4
    IN  IF match.group2 # << >>
        THEN IndentationError(
                 "each block must be indented four spaces (other whitespace found)",
                 p.line, match.start2)
        ELSE IF remainder # 0
        THEN IndentationError(
                 "each block must be indented four spaces (extra spaces found)",
                 p.line, block_depth * 4)
        ELSE IF p.block_depth + 1 < block_depth
        THEN IndentationError(
                 "each block must be indented four spaces (block over-indented)",
                 p.line, p.block_depth * 4)
        ELSE Measured(block_depth)

\* the extra-spaces column is the end of the indentation, not the start of the extra spaces
measure_block_depth_ColumnAtEnd(p) ==
    LET match == INDENT_REGEX_match(line_text(p))
        indentation == match.end
        block_depth == indentation \div 4
        remainder == indentation % 4
    IN  IF match.group2 # << >>
        THEN IndentationError(
                 "each block must be indented four spaces (other whitespace found)",
                 p.line, match.start2)
        ELSE IF remainder # 0
        THEN IndentationError(
                 "each block must be indented four spaces (extra spaces found)",
                 p.line, indentation)
        ELSE IF p.block_depth + 1 < block_depth
        THEN IndentationError(
                 "each block must be indented four spaces (block over-indented)",
                 p.line, (p.block_depth + 1) * 4)
        ELSE Measured(block_depth)

\* the measurement without the test for an over-indented block
measure_block_depth_AnyIncrease(p) ==
    LET match == INDENT_REGEX_match(line_text(p))
        indentation == match.end
        block_depth == indentation \div 4
        remainder == indentation % 4
    IN  IF match.group2 # << >>
        THEN IndentationError(
                 "each block must be indented four spaces (other whitespace found)",
                 p.line, match.start2)
        ELSE IF remainder # 0
        THEN IndentationError(
                 "each block must be indented four spaces (extra spaces found)",
                 p.line, block_depth * 4)
        ELSE Measured(block_depth)

measure_block_depth(p) ==
    LET match == INDENT_REGEX_match(line_text(p))
        indentation == match.end
        block_depth == indentation \div 4
        remainder == indentation % 4
    IN  IF match.group2 # << >>
        THEN IndentationError(
                 "each block must be indented four spaces (other whitespace found)",
                 p.line, match.start2)
        ELSE IF remainder # 0
        THEN IndentationError(
                 "each block must be indented four spaces (extra spaces found)",
                 p.line, block_depth * 4)
        ELSE IF p.block_depth + 1 < block_depth
        THEN IndentationError(
                 "each block must be indented four spaces (block over-indented)",
                 p.line, (p.block_depth + 1) * 4)
        ELSE Measured(block_depth)

----------------------------------------------------------------------------
(* The structural tokens.                                                  *)

EndFileParse(p) ==
    IF p.line >= last_line /\ p.column >= Len(line_text(p))
    THEN Matched(new_from_symbol(p, Token("EndFile", p.line, p.line, p.column, p.column)))
    ELSE None

\* text.strip() == ''
IsBlank(text) == \A i \in 1..Len(text) : text[i] \in Whitespace

BlankLineParse(p) ==
    IF p.column # 0 THEN None
    ELSE IF IsBlank(line_text(p))
    THEN Matched(new_from_symbol(p, Token("BlankLine", p.line, p.line + 1, 0, 0)))
    ELSE None

\* the token ends on the line it starts on
EndLineParse_SameLine(p) ==
    IF p.column >= Len(line_text(p))
    THEN Matched(new_from_symbol(p, Token("EndLine", p.line, p.line, p.column, 0)))
    ELSE None

EndLineParse(p) ==
    IF p.column >= Len(line_text(p))
    THEN Matched(new_from_symbol(p, Token("EndLine", p.line, p.line + 1, p.column, 0)))
    ELSE None

BeginBlockParse(p) ==
    IF p.column # 0 THEN None
    ELSE LET m == measure_block_depth(p)
         IN  IF m.kind = "IndentationError" THEN m
             ELSE IF p.block_depth < m.block_depth
             THEN Matched(new_from_symbol(p,
                      BlockToken("BeginBlock", p.line, p.line, p.column, p.column,
                                 p.block_depth + 1)))
             ELSE None

\* the whole dedent is taken in one token
EndBlockParse_JumpsToMeasured(p) ==
    IF p.column # 0 THEN None
    ELSE LET m == measure_block_depth(p)
         IN  IF m.kind = "IndentationError" THEN m
             ELSE IF m.block_depth < p.block_depth
             THEN Matched(new_from_symbol(p,
                      BlockToken("EndBlock", p.line, p.line, p.column, p.column,
                                 m.block_depth)))
             ELSE None

\* the token's span runs on to the next line
EndBlockParse_AdvancesLine(p) ==
    IF p.column # 0 THEN None
    ELSE LET m == measure_block_depth(p)
         IN  IF m.kind = "IndentationError" THEN m
             ELSE IF m.block_depth < p.block_depth
             THEN Matched(new_from_symbol(p,
                      BlockToken("EndBlock", p.line, p.line + 1, p.column, p.column,
                                 p.block_depth - 1)))
             ELSE None

EndBlockParse(p) ==
    IF p.column # 0 THEN None
    ELSE LET m == measure_block_depth(p)
         IN  IF m.kind = "IndentationError" THEN m
             ELSE IF m.block_depth < p.block_depth
             THEN Matched(new_from_symbol(p,
                      BlockToken("EndBlock", p.line, p.line, p.column, p.column,
                                 p.block_depth - 1)))
             ELSE None

----------------------------------------------------------------------------
(* Symbols of the engine that argument_list.py uses from the parser        *)
(* module: a literal, and the zero-width fallback.                         *)

\* Characters[chars].parse: the literal chars at the cursor, on one line
CharactersParse(chars, p) ==
    LET text == line_text(p)
        next_column == p.column + Len(chars)
    IN  IF next_column <= Len(text) /\ SubSeq(text, p.column + 1, next_column) = chars
        THEN Matched(new_from_symbol(p,
                 [type |-> "Characters", chars |-> chars,
                  first_line |-> p.line, next_line |-> p.line,
                  first_column |-> p.column, next_column |-> next_column]))
        ELSE None

\* Always.parse: matches everywhere and consumes nothing
AlwaysParse(p) ==
    Matched(new_from_symbol(p, Token("Always", p.line, p.line, p.column, p.column)))

----------------------------------------------------------------------------
(* Parser.parse: ordered alternation.                                      *)

\* a symbol type, as it stands in a candidate list
SymbolType(cls) == [cls |-> cls]
Characters(chars) == [cls |-> "Characters", chars |-> chars]
\* a composite rule that hands its own alternatives to Parser.parse
Composite(one_of) == [cls |-> "Composite", one_of |-> one_of]

RECURSIVE SymbolParse(_, _)
RECURSIVE ParseFrom(_, _, _)

\* a NoMatchError of any candidate ends the loop, not only of the last one
ParseFrom_FirstNoMatchRaises(p, one_of, i) ==
    IF i > Len(one_of)
    THEN NoMatchError(p, one_of)
    ELSE LET next_parser == SymbolParse(one_of[i], p)
         IN  CASE next_parser.kind = "NoMatchError" -> NoMatchError(p, one_of)
               [] next_parser.kind = "matched" -> next_parser
               [] next_parser.kind = "None" -> ParseFrom(p, one_of, i + 1)
               [] OTHER -> next_parser

\* the NoMatchError of the last candidate is passed on as it is
ParseFrom_ReraisesNested(p, one_of, i) ==
    IF i > Len(one_of)
    THEN NoMatchError(p, one_of)
    ELSE LET next_parser == SymbolParse(one_of[i], p)
         IN  CASE next_parser.kind = "NoMatchError" ->
                      IF i = Len(one_of)
                      THEN next_parser
                      ELSE ParseFrom(p, one_of, i + 1)
               [] next_parser.kind = "matched" -> next_parser
               [] next_parser.kind = "None" -> ParseFrom(p, one_of, i + 1)
               [] OTHER -> next_parser

\* every ParseError is caught, an IndentationError too
ParseFrom_CatchesParseError(p, one_of, i) ==
    IF i > Len(one_of)
    THEN NoMatchError(p, one_of)
    ELSE LET next_parser == SymbolParse(one_of[i], p)
         IN  CASE next_parser.kind \in {"NoMatchError", "IndentationError"} ->
                      IF i = Len(one_of)
                      THEN NoMatchError(p, one_of)
                      ELSE ParseFrom(p, one_of, i + 1)
               [] next_parser.kind = "matched" -> next_parser
               [] next_parser.kind = "None" -> ParseFrom(p, one_of, i + 1)

\* symbol_type.parse(parser)
SymbolParse(symbol_type, p) ==
    CASE symbol_type.cls = "EndFile" -> EndFileParse(p)
      [] symbol_type.cls = "BlankLine" -> BlankLineParse(p)
      [] symbol_type.cls = "EndLine" -> EndLineParse(p)
      [] symbol_type.cls = "BeginBlock" -> BeginBlockParse(p)
      [] symbol_type.cls = "EndBlock" -> EndBlockParse(p)
      [] symbol_type.cls = "Characters" -> CharactersParse(symbol_type.chars, p)
      [] symbol_type.cls = "Always" -> AlwaysParse(p)
      [] symbol_type.cls = "Composite" -> ParseFrom(p, symbol_type.one_of, 1)

\* the loop of Parser.parse from candidate i on (1-based)
ParseFrom(p, one_of, i) ==
    IF i > Len(one_of)
    THEN NoMatchError(p, one_of)
    ELSE LET next_parser == SymbolParse(one_of[i], p)
         IN  CASE next_parser.kind = "NoMatchError" ->
                      IF i = Len(one_of)
                      THEN NoMatchError(p, one_of)
                      ELSE ParseFrom(p, one_of, i + 1)
               [] next_parser.kind = "matched" -> next_parser
               [] next_parser.kind = "None" -> ParseFrom(p, one_of, i + 1)
               [] OTHER -> next_parser

\* Parser.parse(one_of)
Parse(p, one_of) == ParseFrom(p, one_of, 1)

----------------------------------------------------------------------------
(* The driver: one symbol is tried on the current cursor at a time.  A     *)
(* match replaces the cursor, None leaves everything as it was (the        *)
(* cursor is a value, nothing is rolled back), an exception ends the       *)
(* parse.                                                                  *)

NoCall == [op |-> "none"]

\* an exception has reached the top of the parse
Halted == call.op # "none" /\ call.result.kind # "matched"

\* the record of symbol_type.parse(p)
SymbolCall(symbol_type, p) ==
    [op |-> "symbol", symbol_type |-> symbol_type, on |-> p,
     result |-> SymbolParse(symbol_type, p)]

\* the cursor after a call: the new one on a match, the old one otherwise
After(c) == IF c.result.kind = "matched" THEN c.result.parser ELSE c.on

ParseEndFile ==
    /\ ~Halted
    /\ SymbolCall(SymbolType("EndFile"), parser).result.kind # "None"
    /\ call' = SymbolCall(SymbolType("EndFile"), parser)
    /\ parser' = After(call')
    /\ UNCHANGED engine_frame

ParseBlankLine ==
    /\ ~Halted
    /\ SymbolCall(SymbolType("BlankLine"), parser).result.kind # "None"
    /\ call' = SymbolCall(SymbolType("BlankLine"), parser)
    /\ parser' = After(call')
    /\ UNCHANGED engine_frame

ParseEndLine ==
    /\ ~Halted
    /\ SymbolCall(SymbolType("EndLine"), parser).result.kind # "None"
    /\ call' = SymbolCall(SymbolType("EndLine"), parser)
    /\ parser' = After(call')
    /\ UNCHANGED engine_frame

ParseBeginBlock ==
    /\ ~Halted
    /\ SymbolCall(SymbolType("BeginBlock"), parser).result.kind # "None"
    /\ call' = SymbolCall(SymbolType("BeginBlock"), parser)
    /\ parser' = After(call')
    /\ UNCHANGED engine_frame

ParseEndBlock ==
    /\ ~Halted
    /\ SymbolCall(SymbolType("EndBlock"), parser).result.kind # "None"
    /\ call' = SymbolCall(SymbolType("EndBlock"), parser)
    /\ parser' = After(call')
    /\ UNCHANGED engine_frame

\* some literal that stands at the cursor is consumed
ParseCharacters ==
    /\ ~Halted
    /\ \E c \in {" ", "x"} :
          /\ SymbolCall(Characters(<<c>>), parser).result.kind # "None"
          /\ call' = SymbolCall(Characters(<<c>>), parser)
    /\ parser' = After(call')
    /\ UNCHANGED engine_frame

\* the threads that use the namespace tree, the names they look up, and the
\* names among them under which they make namespaces
Threads == {"t1", "t2"}
Names == {"x", "y"}
MadeNames == {"x"}

\* None, as a name, a namespace and a construct
NoName == "None"
NoNamespace == 0
NoConstruct == [kind |-> "None"]
NoThread == "None"

\* threading.RLock(): not held
FreeLock == [owner |-> NoThread, count |-> 0]

\* Namespace(): the fields as the attrs defaults leave them
NewNamespace ==
    [name |-> NoName, parent |-> NoNamespace, construct |-> NoConstruct,
     lock |-> FreeLock, members |-> [n \in Names |-> NoNamespace]]

\* the root of the tree
Root == 1

\* a thread that is in no call
IdleThread ==
    [pc |-> "idle", call |-> "none", op |-> "none", node |-> NoNamespace,
     name |-> NoName, construct |-> NoConstruct, held |-> << >>,
     result |-> [kind |-> "none"]]

\* a tree of the root alone, and no call running
NamespaceIdle ==
    /\ namespaces = <<NewNamespace>>
    /\ threads = [t \in Threads |-> IdleThread]

\* ArgumentList.parse is not running
ArgsIdle ==
    /\ cursor = Parser(0, 0, NoSymbol, 0)
    /\ arguments = << >>
    /\ saw_end_position_only_marker = FALSE
    /\ saw_begin_keyword_only_marker = FALSE
    /\ saw_extra_positionals = FALSE
    /\ saw_extra_keywords = FALSE
    /\ outcome = [kind |-> "running"]

Init ==
    /\ lines \in Sources
    /\ parser = Parser(0, 0, NoSymbol, 0)
    /\ call = NoCall
    /\ ArgsIdle
    /\ NamespaceIdle

Next ==
    \/ ParseEndFile
    \/ ParseBlankLine
    \/ ParseEndLine
    \/ ParseBeginBlock
    \/ ParseEndBlock
    \/ ParseCharacters

vars == <<lines, parser, call, args_vars, ns_vars>>

Spec == Init /\ [][Next]_vars

----------------------------------------------------------------------------
(* Parser.parse on a cursor constructed at the start of a line with any    *)
(* block depth, Parser(lines, block_depth=d): every depth is reached at    *)
(* column 0 of a line by a source that opens d blocks above it.            *)

TokenClasses == {"EndFile", "BlankLine", "EndLine", "BeginBlock", "EndBlock"}

\* the token classes, and a composite rule that tries two of them itself
Candidates ==
    {SymbolType(c) : c \in TokenClasses}
        \cup {Composite(<<SymbolType("BeginBlock"), SymbolType("EndLine")>>)}

CandidateLists == SeqsUpTo(Candidates, MaxCandidates)

\* parser.parse(one_of) on the current cursor
ParseOneOf ==
    /\ ~Halted
    /\ \E one_of \in CandidateLists :
          call' = [op |-> "parse", one_of |-> one_of, on |-> parser,
                   result |-> Parse(parser, one_of)]
    /\ parser' = After(call')
    /\ UNCHANGED engine_frame

\* lines whose indentation breaks a rule
BadLines == {<<" ", "x">>, <<" ", " ", " ">>, <<"\t", "x">>}

InitOneOf ==
    /\ lines \in {<< >>} \cup {<<text>> : text \in LineSet \cup BadLines}
    /\ parser \in {Parser(0, 0, NoSymbol, d) : d \in 0..MaxDepth}
    /\ call = NoCall
    /\ ArgsIdle
    /\ NamespaceIdle

SpecOneOf == InitOneOf /\ [][ParseOneOf]_vars

InitAt ==
    /\ lines \in OneLineSources
    /\ parser \in {Parser(0, 0, NoSymbol, d) : d \in 0..MaxDepth}
    /\ call = NoCall
    /\ ArgsIdle
    /\ NamespaceIdle

NextIndent ==
    \/ ParseBeginBlock
    \/ ParseEndBlock

SpecIndent == InitAt /\ [][NextIndent]_vars

----------------------------------------------------------------------------
(* ArgumentList.parse.  The text of the list is the one line of the        *)
(* source; a variable is a run of the letter "a".  Each action is one      *)
(* turn of the while loop, from the marker tried at its top to the comma   *)
(* tried at its end, or the return.                                        *)

\* the characters of an argument list
ArgChars == {"a", "*", "/", ","}

ArgTexts == SeqsUpTo(ArgChars, MaxArgLen)

\* the longer list a,*a,a,**a: every kind of argument in one list
ArgExamples == {<<"a", ",", "*", "a", ",", "a", ",", "*", "*", "a">>}

\* cursor.parse_one_symbol(one_of): ordered alternation as in Parser.parse
parse_one_symbol(p, one_of) == Parse(p, one_of)

\* expression.Variable.parse(cursor): a cursor behind the variable with the
\* Variable as last_symbol, or None when no variable stands at the cursor
VariableParse(p) ==
    LET text == line_text(p)
        n == RunLength(text, p.column + 1, {"a"})
        name == SubSeq(text, p.column + 1, p.column + n)
    IN  IF n = 0 THEN None
        ELSE Matched(new_from_symbol(CharactersParse(name, p).parser,
                                     [type |-> "Variable", name |-> name,
                                      first_column |-> p.column]))

Argument(variable, is_positional, is_keyword, is_extra) ==
    [variable |-> variable, is_positional |-> is_positional,
     is_keyword |-> is_keyword, is_extra |-> is_extra]

\* ArgumentList(arguments=arguments)
ArgumentListSymbol(args) == [type |-> "ArgumentList", arguments |-> args]

\* parser_module.ParseError(message, ...)
ParseError(message) == [kind |-> "ParseError", message |-> message]

\* what reading an attribute of None raises
AttributeError == [kind |-> "AttributeError"]

MultipleExtraPositional == "multiple \"extra positional\" arguments found"
MultipleBeginKeywordOnly == "multiple \"begin keyword-only\" markers found"
ExpectedVariable == "expected Variable"
MultipleExtraKeyword == "multiple \"extra keyword\" arguments found"
MultipleEndPositionOnly == "multiple \"end position-only\" markers found"
EndPositionOnlyAfterKeywordOnly ==
    "\"end position-only\" marker found after \"begin keyword-only\" marker"

\* the marker tried at the top of a turn: "**" before "*", then "/", else nothing
MarkerCursor(p) ==
    parse_one_symbol(p, <<Characters(<<"*", "*">>), Characters(<<"*">>),
                          Characters(<<"/">>), SymbolType("Always")>>).parser

\* the comma tried at the end of a turn
CommaCursor(p) ==
    parse_one_symbol(p, <<Characters(<<",">>), SymbolType("Always")>>).parser

\* isinstance(symbol, Characters[chars])
IsCharacters(symbol, chars) == symbol.type = "Characters" /\ symbol.chars = chars

\* raise e with the cursor at c
Raise(c, e) ==
    /\ cursor' = c
    /\ outcome' = e

\* the end of a turn that goes on with the loop without a comma
CommaOrReturn_GoesOnWithoutComma(c, args) ==
    /\ cursor' = CommaCursor(c)
    /\ outcome' = outcome

\* the end of a turn: a comma goes on with the loop, anything else returns
\* cursor.new_from_symbol(cls(arguments=arguments))
CommaOrReturn(c, args) ==
    /\ cursor' = CommaCursor(c)
    /\ outcome' = IF cursor'.last_symbol.type = "Always"
                  THEN Matched(new_from_symbol(cursor', ArgumentListSymbol(args)))
                  ELSE outcome

\* the rewrite when it does not skip the extra arguments
RewritePositionOnly_RewritesExtras(args) ==
    [i \in 1..Len(args) |-> Argument(args[i].variable, TRUE, FALSE, FALSE)]

\* every argument so far that is not extra becomes position-only
RewritePositionOnly(args) ==
    [i \in 1..Len(args) |->
        IF args[i].is_extra THEN args[i]
        ELSE Argument(args[i].variable, TRUE, FALSE, FALSE)]

\* the branch for "*": new_cursor.last_symbol is read first
StarBranch(c, new_cursor) ==
    IF new_cursor = None
    THEN /\ Raise(c, AttributeError)
         /\ UNCHANGED <<arguments, saw_extra_positionals, saw_begin_keyword_only_marker>>
    ELSE IF saw_extra_positionals
    THEN /\ Raise(c, ParseError(MultipleExtraPositional))
         /\ UNCHANGED <<arguments, saw_extra_positionals, saw_begin_keyword_only_marker>>
    ELSE /\ saw_extra_positionals' = TRUE
         /\ arguments' = Append(arguments,
                Argument(new_cursor.parser.last_symbol, TRUE, FALSE, TRUE))
         /\ IF saw_begin_keyword_only_marker
            THEN /\ Raise(new_cursor.parser, ParseError(MultipleBeginKeywordOnly))
                 /\ UNCHANGED saw_begin_keyword_only_marker
            ELSE /\ saw_begin_keyword_only_marker' = TRUE
                 /\ CommaOrReturn(new_cursor.parser, arguments')

\* the branch for "**": new_cursor.last_symbol is read first
StarStarBranch(c, new_cursor) ==
    IF new_cursor = None
    THEN /\ Raise(c, AttributeError)
         /\ UNCHANGED <<arguments, saw_extra_keywords>>
    ELSE IF new_cursor.parser.last_symbol.type # "Variable"
    THEN /\ Raise(c, ParseError(ExpectedVariable))
         /\ UNCHANGED <<arguments, saw_extra_keywords>>
    ELSE IF saw_extra_keywords
    THEN /\ Raise(c, ParseError(MultipleExtraKeyword))
         /\ UNCHANGED <<arguments, saw_extra_keywords>>
    ELSE /\ saw_extra_keywords' = TRUE
         /\ arguments' = Append(arguments,
                Argument(new_cursor.parser.last_symbol, FALSE, TRUE, TRUE))
         /\ CommaOrReturn(new_cursor.parser, arguments')

\* the branch for "/"
SlashBranch(c) ==
    IF saw_end_position_only_marker
    THEN /\ Raise(c, ParseError(MultipleEndPositionOnly))
         /\ UNCHANGED <<arguments, saw_end_position_only_marker>>
    ELSE IF saw_begin_keyword_only_marker
    THEN /\ Raise(c, ParseError(EndPositionOnlyAfterKeywordOnly))
         /\ UNCHANGED <<arguments, saw_end_position_only_marker>>
    ELSE /\ saw_end_position_only_marker' = TRUE
         /\ arguments' = RewritePositionOnly(arguments)
         /\ CommaOrReturn(c, arguments')

\* the branch for a variable without a marker
VariableBranch(new_cursor) ==
    /\ arguments' = Append(arguments,
           Argument(new_cursor.parser.last_symbol,
                    ~saw_begin_keyword_only_marker, TRUE, FALSE))
    /\ CommaOrReturn(new_cursor.parser, arguments')

\* a turn of the loop that matches "*"
ArgStar ==
    /\ outcome.kind = "running"
    /\ IsCharacters(MarkerCursor(cursor).last_symbol, <<"*">>)
    /\ StarBranch(MarkerCursor(cursor), VariableParse(MarkerCursor(cursor)))
    /\ UNCHANGED <<saw_end_position_only_marker, saw_extra_keywords>>
    /\ UNCHANGED <<lines, parser, call, ns_vars>>

\* a turn of the loop that matches "**"
ArgStarStar ==
    /\ outcome.kind = "running"
    /\ IsCharacters(MarkerCursor(cursor).last_symbol, <<"*", "*">>)
    /\ StarStarBranch(MarkerCursor(cursor), VariableParse(MarkerCursor(cursor)))
    /\ UNCHANGED <<saw_end_position_only_marker, saw_begin_keyword_only_marker,
                   saw_extra_positionals>>
    /\ UNCHANGED <<lines, parser, call, ns_vars>>

\* a turn of the loop that matches "/"
ArgSlash ==
    /\ outcome.kind = "running"
    /\ IsCharacters(MarkerCursor(cursor).last_symbol, <<"/">>)
    /\ SlashBranch(MarkerCursor(cursor))
    /\ UNCHANGED <<saw_begin_keyword_only_marker, saw_extra_positionals,
                   saw_extra_keywords>>
    /\ UNCHANGED <<lines, parser, call, ns_vars>>

\* a turn of the loop that matches no marker and then a variable
ArgVariable ==
    /\ outcome.kind = "running"
    /\ MarkerCursor(cursor).last_symbol.type = "Always"
    /\ VariableParse(MarkerCursor(cursor)) # None
    /\ VariableBranch(VariableParse(MarkerCursor(cursor)))
    /\ UNCHANGED <<saw_end_position_only_marker, saw_begin_keyword_only_marker,
                   saw_extra_positionals, saw_extra_keywords>>
    /\ UNCHANGED <<lines, parser, call, ns_vars>>

\* a turn of the loop that matches neither a marker nor a variable: break, return
ArgBreak ==
    /\ outcome.kind = "running"
    /\ MarkerCursor(cursor).last_symbol.type = "Always"
    /\ VariableParse(MarkerCursor(cursor)) = None
    /\ cursor' = MarkerCursor(cursor)
    /\ outcome' = Matched(new_from_symbol(cursor', ArgumentListSymbol(arguments)))
    /\ UNCHANGED <<arguments, saw_end_position_only_marker,
                   saw_begin_keyword_only_marker, saw_extra_positionals,
                   saw_extra_keywords>>
    /\ UNCHANGED <<lines, parser, call, ns_vars>>

InitArgs ==
    /\ lines \in {<<text>> : text \in ArgTexts \cup ArgExamples}
    /\ parser = Parser(0, 0, NoSymbol, 0)
    /\ call = NoCall
    /\ ArgsIdle
    /\ NamespaceIdle

NextArgs ==
    \/ ArgStar
    \/ ArgStarStar
    \/ ArgSlash
    \/ ArgVariable
    \/ ArgBreak

SpecArgs == InitArgs /\ [][NextArgs]_vars

----------------------------------------------------------------------------
(* The namespace tree: Namespace.__getitem__, Namespace.resolve, the        *)
(* construct setter and ConstructBase's declaration, called by threads.    *)
(* A step is what a thread does between two points where another thread    *)
(* can run and see a difference: taking a lock, a test, a write, a release. *)

\* the Namespace objects made so far
Nodes == 1..Len(namespaces)

\* the construct a declaration makes: its name, its namespace, and the thread
\* that made it, which tells it from another construct of the same name
Construct(name, namespace, t) == [name |-> name, namespace |-> namespace, id |-> t]

\* the constructs that exist: those a declaration has set
Declared == {namespaces[n].construct : n \in Nodes} \ {NoConstruct}

AlreadyDeclared == "already declared"
NamespaceMismatch == "construct.namespace must be the parent namespace"
NameMismatch == "construct.name must match this namespace"

ValueError(message) == [kind |-> "ValueError", message |-> message]
KeyError(name) == [kind |-> "KeyError", name |-> name]
Returned(value) == [kind |-> "returned", value |-> value]

\* a lock that lets every thread in
CanAcquire_AnyThread(t, n) == TRUE

\* with self._lock: an RLock lets in the thread that holds it, and no other
CanAcquire(t, n) == namespaces[n].lock.owner \in {NoThread, t}

Acquired(lock, t) == [owner |-> t, count |-> lock.count + 1]

\* a release that leaves the lock with its holder
Released_StillHeld(lock) == lock

Released(lock) ==
    IF lock.count <= 1 THEN FreeLock ELSE [lock EXCEPT !.count = @ - 1]

\* the threads that may still make a Namespace
Creating ==
    Cardinality({t \in Threads : /\ threads[t].op = "getitem"
                                 /\ threads[t].pc \in {"acquire", "check", "create"}})

\* a call that may make a Namespace starts only while one more fits the tree
RoomFor(n, name) ==
    \/ namespaces[n].members[name] # NoNamespace
    \/ Len(namespaces) + Creating < MaxNamespaces

\* thread t enters a call
Begin(t, c, op, n, name, construct) ==
    /\ threads[t].pc = "idle"
    /\ threads' = [threads EXCEPT ![t] =
           [pc |-> "acquire", call |-> c, op |-> op, node |-> n, name |-> name,
            construct |-> construct, held |-> << >>, result |-> [kind |-> "none"]]]
    /\ UNCHANGED namespaces
    /\ UNCHANGED <<lines, parser, call, args_vars>>

\* namespace[name]
CallGetItem ==
    \E t \in Threads, n \in Nodes, name \in MadeNames :
        /\ RoomFor(n, name)
        /\ Begin(t, "getitem", "getitem", n, name, NoConstruct)

\* namespace.resolve(name)
CallResolve ==
    \E t \in Threads, n \in Nodes, name \in Names :
        Begin(t, "resolve", "resolve", n, name, NoConstruct)

\* namespace.construct = construct
CallSetConstruct ==
    \E t \in Threads, n \in Nodes, construct \in Declared :
        Begin(t, "set", "set", n, NoName, construct)

\* ConstructBase(name, namespace): namespace[self.name].construct = self
CallDeclare ==
    \E t \in Threads, n \in Nodes, name \in MadeNames :
        /\ RoomFor(n, name)
        /\ Begin(t, "declare", "getitem", n, name, Construct(name, n, t))

\* with self._lock: enter
Acquire(t) ==
    LET n == threads[t].node
    IN  /\ threads[t].pc = "acquire"
        /\ CanAcquire(t, n)
        /\ namespaces' = [namespaces EXCEPT ![n].lock = Acquired(@, t)]
        /\ threads' = [threads EXCEPT ![t].pc = "check",
                                      ![t].held = Append(@, n)]
        /\ UNCHANGED <<lines, parser, call, args_vars>>

\* __getitem__: if name not in self._members
GetItemCheck(t) ==
    LET n == threads[t].node
    IN  /\ threads[t].pc = "check"
        /\ threads[t].op = "getitem"
        /\ threads' = [threads EXCEPT ![t].pc =
               IF namespaces[n].members[threads[t].name] = NoNamespace
               THEN "create" ELSE "return"]
        /\ UNCHANGED namespaces
        /\ UNCHANGED <<lines, parser, call, args_vars>>

\* __getitem__: the child is made, put in _members, named and given its parent
GetItemCreate(t) ==
    LET n == threads[t].node
        child == Len(namespaces) + 1
    IN  /\ threads[t].pc = "create"
        /\ Len(namespaces) < MaxNamespaces
        /\ namespaces' = Append(
               [namespaces EXCEPT ![n].members[threads[t].name] = child],
               [NewNamespace EXCEPT !.name = threads[t].name, !.parent = n])
        /\ threads' = [threads EXCEPT ![t].pc = "return"]
        /\ UNCHANGED <<lines, parser, call, args_vars>>

\* __getitem__: return self._members[name]
GetItemReturn(t) ==
    LET n == threads[t].node
    IN  /\ threads[t].pc = "return"
        /\ threads' = [threads EXCEPT
               ![t].pc = "release",
               ![t].result = Returned(namespaces[n].members[threads[t].name])]
        /\ UNCHANGED namespaces
        /\ UNCHANGED <<lines, parser, call, args_vars>>

\* resolve: the member, or on to the parent, or KeyError
ResolveCheck(t) ==
    LET n == threads[t].node
        name == threads[t].name
    IN  /\ threads[t].pc = "check"
        /\ threads[t].op = "resolve"
        /\ threads' = [threads EXCEPT ![t] =
               IF namespaces[n].members[name] # NoNamespace
               THEN [@ EXCEPT !.pc = "release",
                              !.result = Returned(namespaces[n].members[name])]
               ELSE IF namespaces[n].parent # NoNamespace
               THEN [@ EXCEPT !.pc = "acquire", !.node = namespaces[n].parent]
               ELSE [@ EXCEPT !.pc = "release", !.result = KeyError(name)]]
        /\ UNCHANGED namespaces
        /\ UNCHANGED <<lines, parser, call, args_vars>>

\* the setter: its three tests, in the order of the code
SetCheck(t) ==
    LET n == threads[t].node
        construct == threads[t].construct
    IN  /\ threads[t].pc = "check"
        /\ threads[t].op = "set"
        /\ threads' = [threads EXCEPT ![t] =
               IF namespaces[n].construct # NoConstruct
               THEN [@ EXCEPT !.pc = "release", !.result = ValueError(AlreadyDeclared)]
               ELSE IF construct.namespace # namespaces[n].parent
               THEN [@ EXCEPT !.pc = "release", !.result = ValueError(NamespaceMismatch)]
               ELSE IF construct.name # namespaces[n].name
               THEN [@ EXCEPT !.pc = "release", !.result = ValueError(NameMismatch)]
               ELSE [@ EXCEPT !.pc = "write"]]
        /\ UNCHANGED namespaces
        /\ UNCHANGED <<lines, parser, call, args_vars>>

\* the setter: self._construct = construct
SetWrite(t) ==
    LET n == threads[t].node
    IN  /\ threads[t].pc = "write"
        /\ namespaces' = [namespaces EXCEPT ![n].construct = threads[t].construct]
        /\ threads' = [threads EXCEPT ![t].pc = "release",
                                      ![t].result = Returned(NoNamespace)]
        /\ UNCHANGED <<lines, parser, call, args_vars>>

\* with self._lock: leave, the lock taken last first; behind the last one the
\* call is over, or the declaration goes on to the setter of the child
Release(t) ==
    LET held == threads[t].held
        n == held[Len(held)]
    IN  /\ threads[t].pc = "release"
        /\ namespaces' = [namespaces EXCEPT ![n].lock = Released(@)]
        /\ threads' = [threads EXCEPT ![t] =
               IF Len(held) > 1
               THEN [@ EXCEPT !.held = SubSeq(held, 1, Len(held) - 1)]
               ELSE IF threads[t].call = "declare" /\ threads[t].op = "getitem"
               THEN [@ EXCEPT !.pc = "acquire", !.op = "set",
                              !.node = threads[t].result.value, !.held = << >>,
                              !.result = [kind |-> "none"]]
               ELSE IdleThread]
        /\ UNCHANGED <<lines, parser, call, args_vars>>

\* the next step of thread t inside its call
ThreadStep(t) ==
    \/ Acquire(t)
    \/ GetItemCheck(t)
    \/ GetItemCreate(t)
    \/ GetItemReturn(t)
    \/ ResolveCheck(t)
    \/ SetCheck(t)
    \/ SetWrite(t)
    \/ Release(t)

InitNamespace ==
    /\ lines = << >>
    /\ parser = Parser(0, 0, NoSymbol, 0)
    /\ call = NoCall
    /\ ArgsIdle
    /\ NamespaceIdle

NextNamespace ==
    \/ CallGetItem
    \/ CallResolve
    \/ CallSetConstruct
    \/ CallDeclare
    \/ \E t \in Threads : ThreadStep(t)

SpecNamespace == InitNamespace /\ [][NextNamespace]_vars

\* every thread inside a call gets to run, and a thread that waits for a lock
\* gets it when the lock comes free again and again: the waiters of a lock are
\* not passed over for ever
SpecNamespaceFair ==
    /\ InitNamespace
    /\ [][NextNamespace]_vars
    /\ \A t \in Threads : WF_vars(ThreadStep(t))
    /\ \A t \in Threads : SF_vars(Acquire(t))

----------------------------------------------------------------------------
(* Claims about Parser.parse, checked under SpecOneOf.                     *)

Succeeds(symbol_type, p) == SymbolParse(symbol_type, p).kind = "matched"

\* the two ways a candidate says "no match": None, or a NoMatchError
IsNoMatch(symbol_type, p) ==
    SymbolParse(symbol_type, p).kind \in {"None", "NoMatchError"}

\* candidate i is reached: every candidate before it is a no-match
Reached(one_of, i, p) == \A j \in 1..(i - 1) : IsNoMatch(one_of[j], p)

\* C1: Parser.parse is ordered choice.  Whenever candidate i succeeds and
\* every candidate before it is a no-match (None or NoMatchError), parse
\* returns exactly the cursor candidate i produces, whatever stands after
\* it in the list; and parse returns a cursor only in that way.
C1_OrderedChoice ==
    call.op = "parse" =>
        /\ \A i \in 1..Len(call.one_of) :
              (Succeeds(call.one_of[i], call.on) /\ Reached(call.one_of, i, call.on))
                  => /\ call.result = SymbolParse(call.one_of[i], call.on)
                     /\ parser = call.result.parser
        /\ call.result.kind = "matched" =>
              \E i \in 1..Len(call.one_of) :
                  /\ Reached(call.one_of, i, call.on)
                  /\ call.result = SymbolParse(call.one_of[i], call.on)

\* a composite first candidate raised NoMatchError and the second candidate won
C1_Witness ==
    /\ call.op = "parse"
    /\ Len(call.one_of) = 2
    /\ SymbolParse(call.one_of[1], call.on).kind = "NoMatchError"
    /\ call.result.kind = "matched"
    /\ parser # call.on

\* C2: when every candidate fails (None or NoMatchError, in any mix, the
\* empty list included), parse raises NoMatchError carrying the cursor it
\* was called on and the whole candidate list, and the cursor stays.
C2_AllFail ==
    (/\ call.op = "parse"
     /\ \A i \in 1..Len(call.one_of) : IsNoMatch(call.one_of[i], call.on))
        => /\ call.result = NoMatchError(call.on, call.one_of)
           /\ parser = call.on

\* a None first and a raising composite last, and the reverse order, both fail
C2_Witness ==
    /\ call.op = "parse"
    /\ Len(call.one_of) = 2
    /\ SymbolParse(call.one_of[1], call.on).kind = "None"
    /\ SymbolParse(call.one_of[2], call.on).kind = "NoMatchError"
    /\ call.result.kind = "NoMatchError"

\* C3: an IndentationError of a candidate that is tried is raised by parse
\* as it is: the result is that error, not a cursor and not a NoMatchError,
\* whatever the position of the candidate and whatever stands after it.
C3_HardError ==
    call.op = "parse" =>
        \A i \in 1..Len(call.one_of) :
            (/\ Reached(call.one_of, i, call.on)
             /\ SymbolParse(call.one_of[i], call.on).kind = "IndentationError")
                => /\ call.result = SymbolParse(call.one_of[i], call.on)
                   /\ parser = call.on

\* the first candidate raised although the second one would have matched
C3_Witness ==
    /\ call.op = "parse"
    /\ Len(call.one_of) = 2
    /\ SymbolParse(call.one_of[1], call.on).kind = "IndentationError"
    /\ Succeeds(call.one_of[2], call.on)
    /\ call.result.kind = "IndentationError"

----------------------------------------------------------------------------
(* Claims about the cursor and the block tokens.                           *)

\* (line, column) of a is at or before (line, column) of b
CursorLE(a, b) == a.line < b.line \/ (a.line = b.line /\ a.column <= b.column)

\* the last call tried this token class
Tried(cls) == call.op = "symbol" /\ call.symbol_type.cls = cls

\* the last call tried this token class and it matched
MatchedToken(cls) == Tried(cls) /\ call.result.kind = "matched"

\* the leading spaces of a line, and the levels of four they make
LeadingSpaces(text) == RunLength(text, 1, {" "})
Levels(text) == LeadingSpaces(text) \div 4

\* indented with spaces only, in a multiple of four
WellIndented(text) ==
    /\ LeadingSpaces(text) % 4 = 0
    /\ ~(LeadingSpaces(text) < Len(text) /\ text[LeadingSpaces(text) + 1] \in Whitespace)

\* C4: monotonic cursor.  Every match of one of the five structural tokens
\* on a cursor reached from Parser(lines) gives a cursor whose (line, column)
\* is lexicographically at or after the one it was tried on, and that cursor
\* is the one the parse goes on with: no step of a parse retreats.
C4_MonotonicCursor ==
    \A cls \in TokenClasses :
        MatchedToken(cls) =>
            /\ CursorLE(call.on, call.result.parser)
            /\ parser = call.result.parser

\* EndLine matched behind consumed text and went to column 0 of the next line
C4_Witness ==
    /\ MatchedToken("EndLine")
    /\ call.on.column > 0
    /\ parser.line = call.on.line + 1
    /\ parser.column = 0

\* C5: block-depth step invariant.  A BeginBlock match gives exactly the
\* depth it was tried on plus one, an EndBlock match exactly that depth
\* minus one, however many levels the line's indentation is away; and the
\* block depth of every cursor reached from Parser(lines) is a natural number.
C5_BlockDepthStep ==
    /\ parser.block_depth \in Nat
    /\ MatchedToken("BeginBlock") =>
          /\ call.result.parser.block_depth = call.on.block_depth + 1
          /\ Levels(line_text(call.on)) > call.on.block_depth
    /\ MatchedToken("EndBlock") =>
          /\ call.result.parser.block_depth = call.on.block_depth - 1
          /\ Levels(line_text(call.on)) < call.on.block_depth

\* EndBlock matched on a line two or more levels below the current depth
C5_Witness ==
    /\ MatchedToken("EndBlock")
    /\ Levels(line_text(call.on)) + 2 <= call.on.block_depth
    /\ parser.block_depth = call.on.block_depth - 1

RECURSIVE EndBlockRun(_)
\* the cursors that matching EndBlock again and again from p gives, in order
EndBlockRun(p) ==
    LET r == EndBlockParse(p)
    IN  IF r.kind = "matched" THEN <<r.parser>> \o EndBlockRun(r.parser) ELSE << >>

\* C6: a dedent of several levels is consumed one level per match.  At
\* column 0 of a well-indented line of m levels with block depth d > m,
\* EndBlock matches exactly d - m times in a row; match i leaves depth d - i
\* and the same line and column; after the last one neither EndBlock nor
\* BeginBlock matches.  Every EndBlock match made by the parse is such a
\* step.
C6_DedentOneLevelPerMatch ==
    /\ (/\ parser.column = 0
        /\ WellIndented(line_text(parser))
        /\ Levels(line_text(parser)) < parser.block_depth)
          => LET run == EndBlockRun(parser)
                 d == parser.block_depth
                 m == Levels(line_text(parser))
             IN  /\ Len(run) = d - m
                 /\ \A i \in 1..Len(run) :
                       /\ run[i].block_depth = d - i
                       /\ run[i].line = parser.line
                       /\ run[i].column = parser.column
                 /\ EndBlockParse(run[Len(run)]) = None
                 /\ BeginBlockParse(run[Len(run)]) = None
    /\ MatchedToken("EndBlock") =>
          /\ parser.block_depth = call.on.block_depth - 1
          /\ parser.line = call.on.line
          /\ parser.column = call.on.column

\* two EndBlock matches in a row closed two levels on one line, and the
\* depths now line up
C6_Witness ==
    /\ MatchedToken("EndBlock")
    /\ call.on.last_symbol.type = "EndBlock"
    /\ call.on.last_symbol.first_line = parser.line
    /\ parser.block_depth = Levels(line_text(parser))
    /\ EndBlockParse(parser) = None
    /\ BeginBlockParse(parser) = None

----------------------------------------------------------------------------
(* Claims about the indentation rules, checked under SpecIndent.           *)

OverIndented == "each block must be indented four spaces (block over-indented)"
ExtraSpaces == "each block must be indented four spaces (extra spaces found)"

BlockClasses == {"BeginBlock", "EndBlock"}

\* C7: over-indentation.  At column 0 of a line indented with spaces only,
\* in a multiple of four, by more than one level beyond the block depth,
\* BeginBlock and EndBlock both raise IndentationError "block
\* over-indented" with the cursor's line and column (block depth + 1) * 4;
\* so BeginBlock only ever matches a line exactly one level deeper.
C7_OverIndentation ==
    /\ \A cls \in BlockClasses :
          (/\ parser.column = 0
           /\ WellIndented(line_text(parser))
           /\ Levels(line_text(parser)) > parser.block_depth + 1)
              => SymbolParse(SymbolType(cls), parser) =
                     IndentationError(OverIndented, parser.line,
                                      (parser.block_depth + 1) * 4)
    /\ \A cls \in BlockClasses :
          (Tried(cls) /\ call.result.kind = "IndentationError"
                      /\ call.result.message = OverIndented)
              => /\ WellIndented(line_text(call.on))
                 /\ Levels(line_text(call.on)) > call.on.block_depth + 1
                 /\ call.result.line = call.on.line
                 /\ call.result.column = (call.on.block_depth + 1) * 4
    /\ MatchedToken("BeginBlock") =>
          /\ WellIndented(line_text(call.on))
          /\ Levels(line_text(call.on)) = call.on.block_depth + 1

\* EndBlock, tried at depth 1 on a line of three levels, raised the error
C7_Witness ==
    /\ Tried("EndBlock")
    /\ call.on.block_depth = 1
    /\ call.result = IndentationError(OverIndented, 0, 8)
    /\ Levels(line_text(call.on)) = 3

\* C8 as stated: whenever BeginBlock or EndBlock measures a line whose
\* leading spaces are not a multiple of four, it raises "extra spaces
\* found" at column 4 * floor(count / 4), for every line content.
C8_AsStated ==
    \A cls \in BlockClasses :
        (/\ Tried(cls)
         /\ call.on.column = 0
         /\ LeadingSpaces(line_text(call.on)) % 4 # 0)
            => call.result =
                   IndentationError(ExtraSpaces, call.on.line,
                                    4 * (LeadingSpaces(line_text(call.on)) \div 4))

\* C8 as amended: whenever BeginBlock or EndBlock measures a line whose
\* leading spaces are not a multiple of four and are not followed by
\* another whitespace character, it raises "extra spaces found" at column
\* 4 * floor(count / 4), for every such line and every block depth.
C8_ExtraSpaces ==
    LET NoGap(text) ==
            ~(LeadingSpaces(text) < Len(text) /\ text[LeadingSpaces(text) + 1] \in Whitespace)
    IN  /\ \A cls \in BlockClasses :
              (/\ parser.column = 0
               /\ LeadingSpaces(line_text(parser)) % 4 # 0
               /\ NoGap(line_text(parser)))
                  => SymbolParse(SymbolType(cls), parser) =
                         IndentationError(ExtraSpaces, parser.line,
                                          4 * (LeadingSpaces(line_text(parser)) \div 4))
        /\ \A cls \in BlockClasses :
              (/\ Tried(cls)
               /\ call.on.column = 0
               /\ LeadingSpaces(line_text(call.on)) % 4 # 0
               /\ NoGap(line_text(call.on)))
                  => call.result =
                         IndentationError(ExtraSpaces, call.on.line,
                                          4 * (LeadingSpaces(line_text(call.on)) \div 4))

\* BeginBlock, tried at depth 2 on a line of six spaces, raised the error at column 4
C8_Witness ==
    /\ Tried("BeginBlock")
    /\ call.on.block_depth = 2
    /\ LeadingSpaces(line_text(call.on)) = 6
    /\ call.result = IndentationError(ExtraSpaces, 0, 4)

----------------------------------------------------------------------------
(* Claims about ArgumentList.parse, checked under SpecArgs.                *)

\* the text ArgumentList.parse is given
ArgText == lines[1]

\* the part of the text behind the cursor
Consumed == SubSeq(ArgText, 1, cursor.column)

\* the parse has ended, with a result or an exception
ArgsEnded == outcome.kind # "running"

\* the items of a comma-separated list, each named by its shape: "a" a plain
\* variable, "*" the bare marker, "*a" and "**a" the extra arguments, "/" the
\* position-only terminator; "junk" where the text is no such list
RECURSIVE ItemsFrom(_, _)
ItemsFrom(text, i) ==
    IF i > Len(text) THEN << >>
    ELSE LET stars == RunLength(text, i, {"*"})
             name == RunLength(text, i + stars, {"a"})
             item == IF text[i] = "/" THEN "/"
                     ELSE IF stars = 0 /\ name > 0 THEN "a"
                     ELSE IF stars = 1 /\ name > 0 THEN "*a"
                     ELSE IF stars = 1 THEN "*"
                     ELSE IF stars = 2 /\ name > 0 THEN "**a"
                     ELSE "junk"
             next == IF item = "/" THEN i + 1 ELSE i + stars + name
         IN  IF item = "junk" THEN <<"junk">>
             ELSE IF next > Len(text) THEN <<item>>
             ELSE IF text[next] = "," THEN <<item>> \o ItemsFrom(text, next + 1)
             ELSE <<item, "junk">>

Items(text) == ItemsFrom(text, 1)

IsList(text) == \A i \in DOMAIN Items(text) : Items(text)[i] # "junk"

Count(items, shapes) == Cardinality({i \in DOMAIN items : items[i] \in shapes})

\* at most one *args, one **kwargs, one "/", one keyword-only marker, and no
\* "/" behind the keyword-only marker
WellFormedList(items) ==
    /\ Count(items, {"*a"}) <= 1
    /\ Count(items, {"**a"}) <= 1
    /\ Count(items, {"/"}) <= 1
    /\ Count(items, {"*", "*a"}) <= 1
    /\ \A i, j \in DOMAIN items :
          items[i] \in {"*", "*a"} /\ i < j => items[j] # "/"

\* a successful parse has consumed a well-formed list
C9_WellFormedResult ==
    outcome.kind = "matched" =>
        /\ IsList(Consumed)
        /\ WellFormedList(Items(Consumed))
        /\ Count(Items(Consumed), {"*"}) = 0

\* a list that is not well formed ends in a ParseError or in an AttributeError
C9_ViolationsEndInAnException ==
    ArgsEnded /\ IsList(ArgText) /\ ~WellFormedList(Items(ArgText)) =>
        outcome.kind \in {"ParseError", "AttributeError"}

\* C9: when ArgumentList.parse completes successfully, the list it consumed
\* holds at most one *args, at most one **kwargs, at most one "/", at most
\* one begin-keyword-only marker (bare "*" or *args) and no "/" behind the
\* keyword-only marker; and every list of markers, variables and commas that
\* breaks one of these ends in a fatal ParseError instead of a result.
C9_AsStated ==
    /\ outcome.kind = "matched" =>
          IsList(Consumed) /\ WellFormedList(Items(Consumed))
    /\ ArgsEnded /\ IsList(ArgText) /\ ~WellFormedList(Items(ArgText)) =>
          outcome.kind = "ParseError"

\* the list a,/,*,/
PositionOnlyAfterBareStar == <<"a", ",", "/", ",", "*", ",", "/">>

\* the turn that matched "/" ended the parse with keyword-only mode open
SlashRaisedInKeywordOnlyMode ==
    /\ ArgsEnded
    /\ IsCharacters(cursor.last_symbol, <<"/">>)
    /\ saw_begin_keyword_only_marker

\* C10: parsing a,/,*,/ raises the ParseError whose message is '"end
\* position-only" marker found after "begin keyword-only" marker', and
\* whenever "/" is matched while keyword-only mode is already open that is
\* the error raised.
C10_AsStated ==
    /\ ArgsEnded /\ ArgText = PositionOnlyAfterBareStar =>
          outcome = ParseError(EndPositionOnlyAfterKeywordOnly)
    /\ SlashRaisedInKeywordOnlyMode =>
          outcome = ParseError(EndPositionOnlyAfterKeywordOnly)

\* a,/,*,/ ends in an AttributeError at the bare "*"
C10_BareStarRaisesAttributeError ==
    ArgsEnded /\ ArgText = PositionOnlyAfterBareStar =>
        /\ outcome = AttributeError
        /\ IsCharacters(cursor.last_symbol, <<"*">>)

\* a second "/" is reported as such, whether keyword-only mode is open or not
C10_DuplicateSlashReportedFirst ==
    SlashRaisedInKeywordOnlyMode =>
        outcome = IF Count(Items(Consumed), {"/"}) > 1
                  THEN ParseError(MultipleEndPositionOnly)
                  ELSE ParseError(EndPositionOnlyAfterKeywordOnly)

\* the turn that matched "**" found no variable behind it and ended the parse
StarStarWithoutVariable ==
    /\ ArgsEnded
    /\ IsCharacters(cursor.last_symbol, <<"*", "*">>)
    /\ VariableParse(cursor) = None

\* the argument whose variable stands right behind a "**" in the text
BehindStarStar(argument) ==
    LET first == argument.variable.first_column
    IN  first >= 2 /\ ArgText[first] = "*" /\ ArgText[first - 1] = "*"

\* a variable behind "**" is recorded as the extra keyword argument
C11_ExtraKeywordRecorded ==
    \A i \in DOMAIN arguments :
        BehindStarStar(arguments[i]) =>
            /\ arguments[i].is_keyword
            /\ arguments[i].is_extra
            /\ ~arguments[i].is_positional

\* "**" without a variable ends in an AttributeError
C11_MissingVariableRaisesAttributeError ==
    StarStarWithoutVariable => outcome = AttributeError

\* C11: when "**" is matched and no variable follows it, ArgumentList.parse
\* raises the ParseError 'expected Variable' and fails in no other way; when
\* a variable follows, it is appended with is_keyword and is_extra true and
\* is_positional false.
C11_AsStated ==
    /\ StarStarWithoutVariable => outcome = ParseError(ExpectedVariable)
    /\ \A i \in DOMAIN arguments :
          BehindStarStar(arguments[i]) =>
              /\ arguments[i].is_keyword
              /\ arguments[i].is_extra
              /\ ~arguments[i].is_positional

\* a "*" marker, bare or before a variable, stands at position k of the text
SingleStarAt(k) ==
    /\ ArgText[k] = "*"
    /\ k = 1 \/ ArgText[k - 1] # "*"
    /\ k = Len(ArgText) \/ ArgText[k + 1] # "*"

\* the argument stands behind a "*" marker
AfterStarMarker(argument) ==
    \E k \in 1..argument.variable.first_column : SingleStarAt(k)

\* a "/" was consumed behind the argument
BeforeSlash(argument) ==
    \E k \in (argument.variable.first_column + 1)..cursor.column : ArgText[k] = "/"

Flags(argument) ==
    <<argument.is_positional, argument.is_keyword, argument.is_extra>>

PositionalAndKeyword == <<TRUE, TRUE, FALSE>>
KeywordOnly == <<FALSE, TRUE, FALSE>>
PositionalOnly == <<TRUE, FALSE, FALSE>>
ExtraPositional == <<TRUE, FALSE, TRUE>>
ExtraKeyword == <<FALSE, TRUE, TRUE>>

\* the flags of the arguments, in order
AllFlags == [i \in DOMAIN arguments |-> Flags(arguments[i])]

\* the lists a,*,a and a,*a,a,**a
BareStarList == <<"a", ",", "*", ",", "a">>
EveryKindList == <<"a", ",", "*", "a", ",", "a", ",", "*", "*", "a">>

\* in every result, plain arguments behind a "*" marker are keyword-only and
\* plain arguments before any, with no "/" behind them, positional and keyword
C12_KeywordOnlyMode ==
    outcome.kind = "matched" =>
        \A i \in DOMAIN arguments :
            ~arguments[i].is_extra =>
                /\ AfterStarMarker(arguments[i]) =>
                      Flags(arguments[i]) = KeywordOnly
                /\ ~AfterStarMarker(arguments[i]) /\ ~BeforeSlash(arguments[i]) =>
                      Flags(arguments[i]) = PositionalAndKeyword

\* a,*a,a,**a parses to the four kinds of argument
C12_EveryKindParsed ==
    ArgsEnded /\ ArgText = EveryKindList =>
        /\ outcome.kind = "matched"
        /\ AllFlags = <<PositionalAndKeyword, ExtraPositional, KeywordOnly, ExtraKeyword>>

\* a,*,a ends in an AttributeError at the bare "*"
C12_BareStarRaisesAttributeError ==
    ArgsEnded /\ ArgText = BareStarList =>
        /\ outcome = AttributeError
        /\ IsCharacters(cursor.last_symbol, <<"*">>)

\* C12: in the result of every successful ArgumentList.parse each plain
\* argument behind a "*" marker (bare "*" or *args) has is_positional false
\* and is_keyword true, and each plain argument before any "*" marker with no
\* "/" behind it has both true; a,*,b parses to a positional and keyword
\* argument and a keyword-only one, and a,*args,b,**kwargs to positional and
\* keyword, extra positional, keyword-only and extra keyword.
C12_AsStated ==
    /\ outcome.kind = "matched" =>
          \A i \in DOMAIN arguments :
              ~arguments[i].is_extra =>
                  /\ AfterStarMarker(arguments[i]) =>
                        Flags(arguments[i]) = KeywordOnly
                  /\ ~AfterStarMarker(arguments[i]) /\ ~BeforeSlash(arguments[i]) =>
                        Flags(arguments[i]) = PositionalAndKeyword
    /\ ArgsEnded /\ ArgText = BareStarList =>
          /\ outcome.kind = "matched"
          /\ AllFlags = <<PositionalAndKeyword, KeywordOnly>>
    /\ ArgsEnded /\ ArgText = EveryKindList =>
          /\ outcome.kind = "matched"
          /\ AllFlags = <<PositionalAndKeyword, ExtraPositional, KeywordOnly, ExtraKeyword>>

\* the turn about to run matches "/"
SlashTurn ==
    /\ outcome.kind = "running"
    /\ IsCharacters(MarkerCursor(cursor).last_symbol, <<"/">>)

\* the turn just run raised nothing
NoErrorAfter == outcome'.kind \in {"running", "matched"}

\* the list a,/,a
SlashThenPlainList == <<"a", ",", "/", ",", "a">>

\* C13: when "/" is matched without error every argument appended so far
\* that is not extra becomes positional-only, extra arguments stay as they
\* are, and the number, order and variables of the arguments are kept; no
\* other step alters an argument already appended; arguments appended behind
\* "/" are not rewritten, so a,/,b gives a positional-only and b positional
\* and keyword.
C13_RetroactiveRewrite ==
    [][/\ SlashTurn /\ NoErrorAfter =>
             /\ Len(arguments') = Len(arguments)
             /\ \A i \in DOMAIN arguments :
                   /\ arguments'[i].variable = arguments[i].variable
                   /\ arguments[i].is_extra => arguments'[i] = arguments[i]
                   /\ ~arguments[i].is_extra => Flags(arguments'[i]) = PositionalOnly
       /\ ~SlashTurn =>
             /\ Len(arguments') >= Len(arguments)
             /\ \A i \in DOMAIN arguments : arguments'[i] = arguments[i]
       /\ outcome'.kind # "running" /\ ArgText = SlashThenPlainList =>
             /\ outcome'.kind = "matched"
             /\ AllFlags' = <<PositionalOnly, PositionalAndKeyword>>]_vars

\* a "/" was matched without error behind an extra argument and a plain one
C13_Witness ==
    /\ outcome.kind = "matched"
    /\ saw_end_position_only_marker
    /\ \E i, j \in DOMAIN arguments :
          /\ Flags(arguments[i]) = ExtraKeyword
          /\ Flags(arguments[j]) = PositionalOnly
          /\ BeforeSlash(arguments[i])
          /\ BeforeSlash(arguments[j])

----------------------------------------------------------------------------
(* Claims about the line tokens and the line index, checked under Spec.    *)

LineTokens == {"BlankLine", "EndLine"}

\* where each line token matches: BlankLine at column 0 of a line that is
\* empty or all whitespace, EndLine at or past the end of the line's text
MatchesWhereStated ==
    /\ MatchedToken("BlankLine") =>
          call.on.column = 0 /\ IsBlank(line_text(call.on))
    /\ MatchedToken("EndLine") =>
          call.on.column >= Len(line_text(call.on))

\* C14 as stated: every BlankLine match and every EndLine match gives line =
\* input line + 1 and column 0.
C14_AsStated ==
    /\ MatchesWhereStated
    /\ \A cls \in LineTokens :
          MatchedToken(cls) =>
              /\ parser.line = call.on.line + 1
              /\ parser.column = 0

\* C14: every BlankLine match and every EndLine match gives column 0 and
\* line = input line + 1, unless the cursor it was tried on already stands
\* one past the last line of the source: there the line stays where it is.
\* BlankLine matches only at column 0 of an empty or whitespace-only line,
\* EndLine only at or past the end of the line's text.
C14_NextLineClamped ==
    /\ MatchesWhereStated
    /\ \A cls \in LineTokens :
          MatchedToken(cls) =>
              /\ parser.column = 0
              /\ call.on.line <= last_line + 1
              /\ call.on.line <= last_line => parser.line = call.on.line + 1
              /\ call.on.line = last_line + 1 => parser.line = call.on.line

\* BlankLine matched on the cursor one past the last line and the line stayed
C14_Witness ==
    /\ MatchedToken("BlankLine")
    /\ Len(lines) > 0
    /\ call.on.line = last_line + 1
    /\ parser.line = call.on.line
    /\ parser.column = 0

\* every cursor the last call touched, and the current one
CursorsInPlay ==
    {parser} \cup (IF call.op = "none" THEN {}
                   ELSE {call.on} \cup (IF call.result.kind = "matched"
                                        THEN {call.result.parser} ELSE {}))

\* C15 as stated: in every cursor reached from the initial one, for every
\* source, the empty one included, line <= number of source lines.
C15_AsStated == \A p \in CursorsInPlay : p.line <= Len(lines)

\* C15: in every cursor reached from the initial one the line index is at
\* most one past last_line, which is the index of the last line and 0 for
\* the empty source: line <= number of source lines when there is a line,
\* and line <= 1 for the empty source.
C15_LineClamp ==
    \A p \in CursorsInPlay :
        /\ p.line \in Nat
        /\ p.line <= last_line + 1
        /\ Len(lines) > 0 => p.line <= Len(lines)
        /\ Len(lines) = 0 => p.line <= 1

\* a line token asked for a line two past the last one and was held back
C15_Witness ==
    /\ Len(lines) > 0
    /\ parser.line = Len(lines)
    /\ parser.last_symbol.type \in LineTokens
    /\ parser.last_symbol.next_line = Len(lines) + 1

----------------------------------------------------------------------------
(* Claims about the namespace tree, checked under SpecNamespace and        *)
(* SpecNamespaceFair.                                                      *)

\* thread t is in the setter and has its outcome, the lock still held
SetterEnded(t) == threads[t].op = "set" /\ threads[t].pc = "release"

\* the outcome of every setter call fits the node: a return means the node
\* holds the caller's construct, and a node that holds another construct
\* means ValueError 'already declared'
SetterOutcomeFits ==
    \A t \in Threads :
        SetterEnded(t) =>
            LET n == threads[t].node
                r == threads[t].result
            IN  /\ r.kind \in {"returned", "ValueError"}
                /\ r.kind = "returned" =>
                      namespaces[n].construct = threads[t].construct
                /\ r.kind = "ValueError" /\ namespaces[n].construct # NoConstruct =>
                      r = ValueError(AlreadyDeclared)
                /\ r = ValueError(AlreadyDeclared) =>
                      namespaces[n].construct # NoConstruct

\* C16: declaration is write-once under every interleaving.  A node's
\* construct, once set, never changes; it is set only by a setter call that
\* found it unset, so at most one assignment to a node succeeds; every other
\* assignment to that node raises ValueError 'already declared' and leaves
\* the node as it was.
C16_WriteOnce ==
    [][/\ \A n \in Nodes :
             /\ namespaces[n].construct # NoConstruct =>
                   namespaces'[n].construct = namespaces[n].construct
             /\ namespaces'[n].construct # namespaces[n].construct =>
                   \E t \in Threads :
                       /\ threads[t].pc = "write"
                       /\ threads[t].node = n
                       /\ threads'[t].result = Returned(NoNamespace)
                       /\ namespaces'[n].construct = threads[t].construct
       /\ \A t \in Threads :
             threads[t].pc = "write" /\ threads'[t].pc = "release" =>
                 namespaces[threads[t].node].construct = NoConstruct
       /\ \A n \in 1..Len(namespaces') \ Nodes :
             namespaces'[n].construct = NoConstruct
       /\ SetterOutcomeFits']_vars

\* two threads declared the same name in the same namespace: one construct is
\* set and the other thread's setter raised 'already declared'
C16_Witness ==
    \E t \in Threads :
        /\ SetterEnded(t)
        /\ threads[t].call = "declare"
        /\ threads[t].result = ValueError(AlreadyDeclared)
        /\ namespaces[threads[t].node].construct.id # t
        /\ namespaces[threads[t].node].construct.name = threads[t].construct.name
        /\ namespaces[threads[t].node].construct.namespace = threads[t].construct.namespace

\* the locks a thread holds are a path up the tree, child before parent, and
\* the lock it waits for behind them is the parent of the last one
LocksChildBeforeParent ==
    \A t \in Threads :
        LET held == threads[t].held
        IN  /\ \A i \in 1..(Len(held) - 1) :
                  held[i + 1] = namespaces[held[i]].parent
            /\ threads[t].pc = "acquire" /\ held # << >> =>
                  threads[t].node = namespaces[held[Len(held)]].parent
            /\ \A i \in 1..Len(held) : namespaces[held[i]].lock.owner = t

\* thread t is in resolve and has its outcome, every lock of the walk still held
ResolveEnded(t) ==
    /\ threads[t].op = "resolve"
    /\ threads[t].pc = "release"
    /\ threads[t].held[Len(threads[t].held)] = threads[t].node

\* resolve gives the member of the nearest node on the way to the root that
\* has the name, and KeyError when no node on the way has it
ResolveNearest ==
    \A t \in Threads :
        ResolveEnded(t) =>
            LET held == threads[t].held
                name == threads[t].name
                last == held[Len(held)]
                r == threads[t].result
            IN  /\ \A i \in 1..(Len(held) - 1) :
                      namespaces[held[i]].members[name] = NoNamespace
                /\ r.kind \in {"returned", "KeyError"}
                /\ r.kind = "returned" =>
                      /\ r.value # NoNamespace
                      /\ r.value = namespaces[last].members[name]
                /\ r.kind = "KeyError" =>
                      /\ r = KeyError(name)
                      /\ namespaces[last].members[name] = NoNamespace
                      /\ namespaces[last].parent = NoNamespace

\* a node has one child of a name: every namespace but the root is the member
\* of its parent under its name, and __getitem__ returns that member
SingleChild ==
    /\ \A n \in Nodes \ {Root} :
          /\ namespaces[n].parent \in Nodes
          /\ namespaces[n].name \in Names
          /\ namespaces[namespaces[n].parent].members[namespaces[n].name] = n
    /\ \A t \in Threads :
          threads[t].op = "getitem" /\ threads[t].pc = "release" =>
              /\ threads[t].result.kind = "returned"
              /\ threads[t].result.value # NoNamespace
              /\ threads[t].result.value =
                     namespaces[threads[t].node].members[threads[t].name]

\* what the tree is, the locks aside
Tree ==
    [n \in Nodes |-> [namespaces[n] EXCEPT !.lock = FreeLock]]

----------------------------------------------------------------------------
(* Claims about the end of ArgumentList.parse, checked under SpecArgs.     *)

\* the character behind the cursor, "" at the end of the text
NextChar(p) ==
    IF p.column < Len(ArgText) THEN ArgText[p.column + 1] ELSE ""

\* neither a marker nor a variable stands at the cursor
NothingToParse == NextChar(cursor) \notin {"*", "/", "a"}

\* the marker alternatives give one of the four symbols the branches of the
\* loop tell apart, so one branch is taken
TurnDecided ==
    LET symbol == MarkerCursor(cursor).last_symbol
    IN  \/ IsCharacters(symbol, <<"*", "*">>)
        \/ IsCharacters(symbol, <<"*">>)
        \/ IsCharacters(symbol, <<"/">>)
        \/ symbol.type = "Always"

\* C17: ArgumentList.parse terminates on every finite text and a missing
\* comma ends the list without error.  While the parse runs one branch of the
\* loop is always taken; a turn after which the parse still runs has consumed an entry
\* and a comma and moved the cursor on; a turn that processed an entry and
\* found no comma returns the arguments collected so far with the cursor
\* right behind that entry; a turn that finds neither marker nor variable
\* returns the arguments as they are without moving, so a trailing comma is
\* accepted.
C17_EndsWithoutComma ==
    /\ [](outcome.kind = "running" => TurnDecided)
    /\ [][/\ cursor'.column <= Len(ArgText)
          /\ outcome'.kind = "running" =>
                /\ cursor'.column > cursor.column + 1
                /\ ArgText[cursor'.column] = ","
                /\ IsCharacters(cursor'.last_symbol, <<",">>)
                /\ ~NothingToParse
          /\ outcome'.kind = "matched" =>
                /\ outcome'.parser.line = cursor'.line
                /\ outcome'.parser.column = cursor'.column
                /\ outcome'.parser.last_symbol = ArgumentListSymbol(arguments')
          /\ outcome'.kind = "matched" /\ ~NothingToParse =>
                /\ cursor'.column > cursor.column
                /\ ArgText[cursor'.column] \in {"a", "/"}
                /\ NextChar(cursor') # ","
          /\ NothingToParse =>
                /\ outcome'.kind = "matched"
                /\ arguments' = arguments
                /\ cursor'.column = cursor.column]_vars

\* the list ended behind a variable with no comma, text left over
C17_Witness ==
    /\ outcome.kind = "matched"
    /\ Len(arguments) >= 2
    /\ cursor.column < Len(ArgText)
    /\ ArgText[cursor.column] = "a"
    /\ NextChar(cursor) # ","

----------------------------------------------------------------------------
(* Claims about opening a block, checked under Spec.                       *)

\* C18: a block is opened at most once per position.  Right after a
\* BeginBlock match the line's measured depth equals the new block depth, so
\* neither BeginBlock nor EndBlock matches on the resulting cursor; no
\* BeginBlock match follows a BeginBlock token of the same line and column,
\* and matching BeginBlock again and again ends after one match.
C18_OpenedOncePerPosition ==
    MatchedToken("BeginBlock") =>
        /\ parser = call.result.parser
        /\ parser.line = call.on.line
        /\ parser.column = call.on.column
        /\ measure_block_depth(parser) = Measured(parser.block_depth)
        /\ BeginBlockParse(parser) = None
        /\ EndBlockParse(parser) = None
        /\ ~(/\ call.on.last_symbol.type = "BeginBlock"
             /\ call.on.last_symbol.first_line = call.on.line
             /\ call.on.last_symbol.first_column = call.on.column)

\* a second block was opened, one line below the first and one level deeper
C18_Witness ==
    /\ MatchedToken("BeginBlock")
    /\ parser.block_depth = 2
    /\ parser.line > 0
    /\ Levels(line_text(parser)) = 2
    /\ BeginBlockParse(parser) = None

====
